---- MODULE Spec2Model ----
(***************************************************************************)
(* Vector-space search engine: IndexerFixed (src/indexer_fixed.py) builds  *)
(* an inverted index and writes it to four files; SearchEngine             *)
(* (src/search.py) loads the files and answers conjunctive, cosine-ranked  *)
(* queries.                                                                *)
(*                                                                         *)
(* Numbers.  Python floats are modelled as fixed-point integers counting   *)
(* thousandths (0.693 is 693).  Products of two such numbers count         *)
(* millionths, and Sqrt of a number of millionths counts thousandths.      *)
(* The index files keep fewer digits than memory does (the code: "%.6f"    *)
(* of a float64); here they keep hundredths, see Format6.                  *)
(*                                                                         *)
(* Text.  splitchars, normalize_token, the token filters and the stemmer   *)
(* are imported by the sources; a document's content and a query are given *)
(* here as the sequence of stemmed tokens that survive that pipeline.      *)
(***************************************************************************)
EXTENDS Integers, Sequences, FiniteSets, TLC

\* ------------------------------------------------------------------ bounds
MaxDocs == 3        \* process_document_content calls in one build
MaxTokens == 2      \* surviving tokens in one document
MaxQueryLen == 2    \* surviving tokens in one query

PathList == <<"p1", "p2", "p3">>     \* document identifier strings
Paths == {PathList[i] : i \in DOMAIN PathList}
CommaPath == "c,1"                   \* an identifier string with a comma in it
DocTerms == {"a", "b"}               \* stems that documents are made of
QueryTerms == DocTerms \cup {"z"}    \* "z" is a stem no document contains

\* ------------------------------------------------------- generic helpers
EmptyMap == [x \in {} |-> 0]

\* d[k] = v on a Python dict
Put(d, k, v) == [x \in DOMAIN d \cup {k} |-> IF x = k THEN v ELSE d[x]]

\* d.get(k, default)
Get(d, k, default) == IF k \in DOMAIN d THEN d[k] ELSE default

Range(s) == {s[i] : i \in DOMAIN s}

SeqsUpTo(S, n) == UNION {[1..k -> S] : k \in 0..n}

\* all the orders in which the elements of a set can be enumerated
Perms(S) == {s \in [1..Cardinality(S) -> S] : Range(s) = S}

RECURSIVE SumOver(_, _)
SumOver(S, f) ==
    IF S = {} THEN 0
    ELSE LET x == CHOOSE y \in S : TRUE
         IN  f[x] + SumOver(S \ {x}, f)

RECURSIVE SqrtBetween(_, _, _)
SqrtBetween(x, lo, hi) ==
    IF lo >= hi THEN lo
    ELSE LET mid == (lo + hi + 1) \div 2
         IN  IF mid * mid <= x THEN SqrtBetween(x, mid, hi)
             ELSE SqrtBetween(x, lo, mid - 1)

\* math.sqrt on millionths, giving thousandths (rounded down)
Sqrt(x) == SqrtBetween(x, 0, 30000)

LogTable ==
    <<1,1>> :> 0 @@ <<1,2>> :> -693 @@ <<1,3>> :> -1099 @@ <<1,4>> :> -1386 @@ <<1,5>> :> -1609 @@
    <<2,1>> :> 693 @@ <<2,2>> :> 0 @@ <<2,3>> :> -405 @@ <<2,4>> :> -693 @@ <<2,5>> :> -916 @@
    <<3,1>> :> 1099 @@ <<3,2>> :> 405 @@ <<3,3>> :> 0 @@ <<3,4>> :> -288 @@ <<3,5>> :> -511 @@
    <<4,1>> :> 1386 @@ <<4,2>> :> 693 @@ <<4,3>> :> 288 @@ <<4,4>> :> 0 @@ <<4,5>> :> -223 @@
    <<5,1>> :> 1609 @@ <<5,2>> :> 916 @@ <<5,3>> :> 511 @@ <<5,4>> :> 223 @@ <<5,5>> :> 0

\* math.log(N / df) in thousandths, for N >= 1 and df >= 1
Log(N, df) == LogTable[<<N, df>>]

\* f"{x:.6f}" followed by float(): the value with the digits the file keeps
Format6(x) ==
    IF x >= 0 THEN ((x + 5) \div 10) * 10
    ELSE 0 - (((0 - x) + 5) \div 10) * 10

\* ------------------------------------------------------------------ state
VARIABLES
    \* IndexerFixed
    documents,      \* doc_path -> doc_id
    terms,          \* term -> term_id
    postings,       \* term_id -> (doc_id -> posting)
    doc_lengths,    \* doc_id -> length
    next_doc_id,
    next_term_id,
    \* the index directory: file name -> table, only for the files that exist
    files,
    \* SearchEngine
    s_documents,    \* self.documents
    documents_inv,  \* doc_id -> doc_path
    s_terms,        \* self.terms
    s_postings,     \* self.postings (a defaultdict)
    s_doc_lengths,  \* self.doc_lengths
    total_docs,
    \* control and history
    pc,             \* "index", "weighted", "built", "saved", "loaded"
    calls,          \* the process_document_content calls so far: <<doc_path, content, returned id>>
    load_ok,        \* what load_index returned
    lastQuery,      \* the query of the latest search
    lastParsed,     \* its parsed terms
    lastOrder,      \* the order in which its candidate set was enumerated
    lastResult      \* what it returned or raised

indexerVars == <<documents, terms, postings, doc_lengths, next_doc_id, next_term_id>>
engineVars == <<s_documents, documents_inv, s_terms, s_postings, s_doc_lengths, total_docs>>
searchVars == <<lastQuery, lastParsed, lastOrder, lastResult>>
vars == <<indexerVars, files, engineVars, pc, calls, load_ok, searchVars>>

NoResult == [status |-> "none", results |-> <<>>]

\* IndexerFixed.__init__; no SearchEngine exists yet
Init ==
    /\ documents = EmptyMap
    /\ terms = EmptyMap
    /\ postings = EmptyMap
    /\ doc_lengths = EmptyMap
    /\ next_doc_id = 1
    /\ next_term_id = 1
    /\ files = EmptyMap
    /\ s_documents = EmptyMap
    /\ documents_inv = EmptyMap
    /\ s_terms = EmptyMap
    /\ s_postings = EmptyMap
    /\ s_doc_lengths = EmptyMap
    /\ total_docs = 0
    /\ pc = "index"
    /\ calls = <<>>
    /\ load_ok = FALSE
    /\ lastQuery = <<>>
    /\ lastParsed = <<>>
    /\ lastOrder = <<>>
    /\ lastResult = NoResult

\* ---------------------------------------------------------------- indexer
\* the keys of term_freq in insertion order: the distinct tokens of the
\* content in order of first occurrence
RECURSIVE TermOrder(_)
TermOrder(content) ==
    IF content = <<>> THEN <<>>
    ELSE LET front == TermOrder(SubSeq(content, 1, Len(content) - 1))
             last == content[Len(content)]
         IN  IF last \in Range(front) THEN front ELSE Append(front, last)

\* TermFreq with term_freq[stemmed] = 1 in place of += 1
TermFreqPresence(content, term) == IF \E i \in DOMAIN content : content[i] = term THEN 1 ELSE 0

\* term_freq[stemmed] after the token loop
TermFreq(content, term) == Cardinality({i \in DOMAIN content : content[i] = term})

\* UpdatePostings without self.next_term_id += 1
RECURSIVE UpdatePostingsSameId(_, _, _, _)
UpdatePostingsSameId(order, content, doc_id, st) ==
    IF order = <<>> THEN st
    ELSE LET term == Head(order)
             isNew == term \notin DOMAIN st.terms
             terms1 == IF isNew THEN Put(st.terms, term, st.next_term_id) ELSE st.terms
             term_id == terms1[term]
             row == Get(st.postings, term_id, EmptyMap)
             postings1 == Put(st.postings, term_id,
                              Put(row, doc_id, [tf |-> TermFreq(content, term)]))
         IN  UpdatePostingsSameId(Tail(order), content, doc_id,
                                  [terms |-> terms1, postings |-> postings1,
                                   next_term_id |-> st.next_term_id])

\* the "Update postings" loop over term_freq.items(), run on the state
\* st = [terms, postings, next_term_id]
RECURSIVE UpdatePostings(_, _, _, _)
UpdatePostings(order, content, doc_id, st) ==
    IF order = <<>> THEN st
    ELSE LET term == Head(order)
             isNew == term \notin DOMAIN st.terms
             terms1 == IF isNew THEN Put(st.terms, term, st.next_term_id) ELSE st.terms
             next1 == IF isNew THEN st.next_term_id + 1 ELSE st.next_term_id
             term_id == terms1[term]
             row == Get(st.postings, term_id, EmptyMap)
             postings1 == Put(st.postings, term_id,
                              Put(row, doc_id, [tf |-> TermFreq(content, term)]))
         IN  UpdatePostings(Tail(order), content, doc_id,
                            [terms |-> terms1, postings |-> postings1, next_term_id |-> next1])

\* documents after self.documents[doc_path] = doc_id
RegisterDocument(docs, doc_path, doc_id) == Put(docs, doc_path, doc_id)

process_document_content(content, doc_path) ==
    /\ pc = "index"
    /\ Len(calls) < MaxDocs
    /\ LET doc_id == next_doc_id
           st == UpdatePostings(TermOrder(content), content, doc_id,
                                [terms |-> terms, postings |-> postings,
                                 next_term_id |-> next_term_id])
       IN  /\ documents' = RegisterDocument(documents, doc_path, doc_id)
           /\ next_doc_id' = next_doc_id + 1
           /\ terms' = st.terms
           /\ postings' = st.postings
           /\ next_term_id' = st.next_term_id
           /\ calls' = Append(calls, <<doc_path, content, doc_id>>)
    /\ UNCHANGED <<doc_lengths, files, engineVars, pc, load_ok, searchVars>>

\* idf as calculate_tf_idf computes it
Idf(N, df) == Log(N, df)

\* postings after calculate_tf_idf
WeightedPostings(post, N) ==
    [term_id \in DOMAIN post |->
        LET doc_postings == post[term_id]
            df == Cardinality(DOMAIN doc_postings)
        IN  IF df = 0 THEN doc_postings
            ELSE [doc_id \in DOMAIN doc_postings |->
                    LET tf == doc_postings[doc_id].tf
                        idf == Idf(N, df)
                    IN  [tf |-> tf, tf_idf |-> tf * idf, idf |-> idf, df |-> df]]]

\* build_index runs it once at least one document was processed
calculate_tf_idf ==
    /\ pc = "index"
    /\ Len(calls) > 0
    /\ postings' = WeightedPostings(postings, Cardinality(DOMAIN documents))
    /\ pc' = "weighted"
    /\ UNCHANGED <<documents, terms, doc_lengths, next_doc_id, next_term_id,
                   files, engineVars, calls, load_ok, searchVars>>

\* SquaredLength summing tf * tf instead of tf_idf * tf_idf
SquaredLengthRawTf(post, doc_id) ==
    LET holders == {term_id \in DOMAIN post : doc_id \in DOMAIN post[term_id]}
        sq == [term_id \in holders |-> post[term_id][doc_id].tf * post[term_id][doc_id].tf]
    IN  SumOver(holders, sq)

\* doc_vector_length of one document before the square root
SquaredLength(post, doc_id) ==
    LET holders == {term_id \in DOMAIN post : doc_id \in DOMAIN post[term_id]}
        sq == [term_id \in holders |->
                  post[term_id][doc_id].tf_idf * post[term_id][doc_id].tf_idf]
    IN  SumOver(holders, sq)

\* doc_lengths after calculate_document_lengths
DocumentLengths(docs, post) ==
    [doc_id \in {docs[p] : p \in DOMAIN docs} |-> Sqrt(SquaredLength(post, doc_id))]

calculate_document_lengths ==
    /\ pc = "weighted"
    /\ doc_lengths' = DocumentLengths(documents, postings)
    /\ pc' = "built"
    /\ UNCHANGED <<documents, terms, postings, next_doc_id, next_term_id,
                   files, engineVars, calls, load_ok, searchVars>>

\* the four files of the index directory
FileNames == {"documents.dat", "terms.dat", "postings.dat", "doc_lengths.dat"}

\* the rows of postings.dat: every posting with the defaults of posting.get
\* and the real-valued fields in file precision
PostingsFile(post) ==
    [term_id \in DOMAIN post |->
        [doc_id \in DOMAIN post[term_id] |->
            LET posting == post[term_id][doc_id]
            IN  [tf_idf |-> Format6(Get(posting, "tf_idf", 0)),
                 tf |-> Get(posting, "tf", 0),
                 idf |-> Format6(Get(posting, "idf", 0)),
                 df |-> Get(posting, "df", 0)]]]

\* the rows of doc_lengths.dat
DocLengthsFile(lens) == [doc_id \in DOMAIN lens |-> Format6(lens[doc_id])]

\* the lines of documents.dat, f"{doc_path},{doc_id}" for the items of
\* self.documents in dict order: a key stands where it was first inserted,
\* which is the order of the first call with that doc_path
DocumentsFile(docs, history) ==
    LET keys == TermOrder([i \in DOMAIN history |-> history[i][1]])
    IN  [i \in DOMAIN keys |-> <<keys[i], docs[keys[i]]>>]

\* main: the index is saved once build_index has returned True
save_index ==
    /\ pc = "built"
    /\ files' = [f \in FileNames |->
                    CASE f = "documents.dat" -> DocumentsFile(documents, calls)
                      [] f = "terms.dat" -> terms
                      [] f = "postings.dat" -> PostingsFile(postings)
                      [] f = "doc_lengths.dat" -> DocLengthsFile(doc_lengths)]
    /\ pc' = "saved"
    /\ UNCHANGED <<indexerVars, engineVars, calls, load_ok, searchVars>>

\* ---------------------------------------------------------- search engine
\* line.strip().split(',') of a documents.dat line gives the two values the
\* code unpacks unless the identifier string itself holds a comma
Unpacks(line) == line[1] # CommaPath

\* the lines of documents.dat read before the unpacking raises ValueError
RECURSIVE LinesRead(_)
LinesRead(lines) ==
    IF lines = <<>> \/ ~Unpacks(Head(lines)) THEN <<>>
    ELSE <<Head(lines)>> \o LinesRead(Tail(lines))

\* self.documents after the documents loop over the lines read
DocumentTable(lines) ==
    [doc_path \in {lines[i][1] : i \in DOMAIN lines} |->
        lines[CHOOSE i \in DOMAIN lines :
                 /\ lines[i][1] = doc_path
                 /\ \A j \in DOMAIN lines : lines[j][1] = doc_path => j <= i][2]]

\* a file that exists is read to its end
ReadToEnd(disk, f) ==
    f = "documents.dat" => LinesRead(disk[f]) = disk[f]

\* documents_inv after the documents loop
Inverse(table) ==
    [id \in {table[k] : k \in DOMAIN table} |-> CHOOSE k \in DOMAIN table : table[k] = id]

\* the rows of postings.dat that are keys of the defaultdict: a term id is a
\* key once one of its rows was read
LoadedPostings(rows) == [term_id \in {t \in DOMAIN rows : DOMAIN rows[t] # {}} |-> rows[term_id]]

\* the tables load_index reads to their end before open() raises on a file
\* that does not exist or a line raises, in the order the code opens them
LoadOrder == <<"documents.dat", "terms.dat", "postings.dat", "doc_lengths.dat">>

ReadBeforeFailure(disk) ==
    {LoadOrder[i] : i \in {j \in 1..4 :
        \A k \in 1..j : LoadOrder[k] \in DOMAIN disk /\ ReadToEnd(disk, LoadOrder[k])}}

\* SearchEngine.__init__: the fields are emptied, then load_index fills them
\* from the directory `disk`; its return value is not looked at
load_index(disk) ==
    LET read == ReadBeforeFailure(disk)
        ok == read = FileNames
        loaded == IF "documents.dat" \in DOMAIN disk
                  THEN DocumentTable(LinesRead(disk["documents.dat"]))
                  ELSE EmptyMap
    IN  /\ s_documents' = loaded
        /\ documents_inv' = Inverse(loaded)
        /\ s_terms' = IF "terms.dat" \in read THEN disk["terms.dat"] ELSE EmptyMap
        /\ s_postings' = IF "postings.dat" \in read THEN LoadedPostings(disk["postings.dat"])
                         ELSE EmptyMap
        /\ s_doc_lengths' = IF "doc_lengths.dat" \in read THEN disk["doc_lengths.dat"]
                            ELSE EmptyMap
        /\ total_docs' = IF ok THEN Cardinality(DOMAIN loaded) ELSE 0
        /\ load_ok' = ok

\* the index directory as the engine finds it: what save_index wrote, with
\* at most one file gone
Directories == {files} \cup {[f \in DOMAIN files \ {gone} |-> files[f]] : gone \in DOMAIN files}

NewSearchEngine(disk) ==
    /\ pc = "saved"
    /\ load_index(disk)
    /\ pc' = "loaded"
    /\ UNCHANGED <<indexerVars, files, calls, searchVars>>

\* ParseQuery giving up at the first stem that is absent from self.terms
RECURSIVE ParseQueryStopAtAbsent(_, _)
ParseQueryStopAtAbsent(query, trm) ==
    IF query = <<>> THEN <<>>
    ELSE LET stemmed == Head(query)
         IN  IF stemmed \in DOMAIN trm
             THEN <<[processed |-> stemmed, term_id |-> trm[stemmed]]>>
                      \o ParseQueryStopAtAbsent(Tail(query), trm)
             ELSE <<>>

\* parse_query: the stems in query order, those absent from self.terms dropped
RECURSIVE ParseQuery(_, _)
ParseQuery(query, trm) ==
    IF query = <<>> THEN <<>>
    ELSE LET stemmed == Head(query)
             rest == ParseQuery(Tail(query), trm)
         IN  IF stemmed \in DOMAIN trm
             THEN <<[processed |-> stemmed, term_id |-> trm[stemmed]]>> \o rest
             ELSE rest

\* IntersectRest with a union in place of the intersection
RECURSIVE IntersectRestUnion(_, _, _)
IntersectRestUnion(rest, candidate_docs, post) ==
    IF rest = <<>> THEN candidate_docs
    ELSE LET term_id == Head(rest).term_id
         IN  IF term_id \in DOMAIN post
             THEN IntersectRestUnion(Tail(rest), candidate_docs \cup DOMAIN post[term_id], post)
             ELSE {}

\* the intersection loop of get_documents_with_all_terms over parsed_terms[1:]
RECURSIVE IntersectRest(_, _, _)
IntersectRest(rest, candidate_docs, post) ==
    IF rest = <<>> THEN candidate_docs
    ELSE LET term_id == Head(rest).term_id
         IN  IF term_id \in DOMAIN post
             THEN IntersectRest(Tail(rest), candidate_docs \cap DOMAIN post[term_id], post)
             ELSE {}

\* get_documents_with_all_terms without the loop over parsed_terms[1:]
get_documents_with_first_term(parsed_terms, post) ==
    IF parsed_terms = <<>> THEN {}
    ELSE DOMAIN Get(post, parsed_terms[1].term_id, EmptyMap)

get_documents_with_all_terms(parsed_terms, post) ==
    IF parsed_terms = <<>> THEN {}
    ELSE LET first_term_id == parsed_terms[1].term_id
             candidate_docs == DOMAIN Get(post, first_term_id, EmptyMap)
         IN  IntersectRest(Tail(parsed_terms), candidate_docs, post)

\* self.postings after get_documents_with_all_terms: reading
\* self.postings[first_term_id] on a defaultdict inserts a missing key
PostingsAfterLookup(parsed_terms, post) ==
    IF parsed_terms = <<>> THEN post
    ELSE LET first_term_id == parsed_terms[1].term_id
         IN  IF first_term_id \in DOMAIN post THEN post
             ELSE Put(post, first_term_id, EmptyMap)

\* term_freq of build_query_vector
QueryTermFreq(parsed_terms, term_id) ==
    Cardinality({i \in DOMAIN parsed_terms : parsed_terms[i].term_id = term_id})

QueryTermIds(parsed_terms) == {parsed_terms[i].term_id : i \in DOMAIN parsed_terms}

\* math.log(N / df) raises ValueError when N = 0 and df > 0
QueryVectorRaises(parsed_terms, post, N) ==
    \E term_id \in QueryTermIds(parsed_terms) :
        /\ term_id \in DOMAIN post
        /\ Cardinality(DOMAIN post[term_id]) > 0
        /\ N = 0

build_query_vector(parsed_terms, post, N) ==
    [term_id \in {t \in QueryTermIds(parsed_terms) : t \in DOMAIN post} |->
        LET tf == QueryTermFreq(parsed_terms, term_id)
            df == Cardinality(DOMAIN post[term_id])
            idf == IF df > 0 THEN Log(N, df) ELSE 0
        IN  tf * idf]

\* math.sqrt(sum(w * w for w in vector.values()))
VectorLength(vector) == Sqrt(SumOver(DOMAIN vector, [k \in DOMAIN vector |-> vector[k] * vector[k]]))

\* dot_product of the query vector and the document's tf_idf weights
DotProduct(doc_id, query_vector, post) ==
    LET shared == {t \in DOMAIN query_vector : doc_id \in DOMAIN post[t]}
    IN  SumOver(shared, [t \in shared |-> query_vector[t] * post[t][doc_id].tf_idf])

\* dot_product / (doc_length * query_length), in thousandths
Quotient(dot_product, norms) == (dot_product * 100) \div (norms \div 10)

Similarity(doc_id, query_vector, query_length, post, lens) ==
    LET doc_length == Get(lens, doc_id, 1000)
    IN  IF doc_length > 0 /\ query_length > 0
        THEN Quotient(DotProduct(doc_id, query_vector, post), doc_length * query_length)
        ELSE 0

\* results.sort(key=similarity, reverse=True): a stable sort, so entries of
\* equal similarity keep the order in which they were appended
RECURSIVE InsertBySimilarity(_, _)
InsertBySimilarity(sorted, entry) ==
    IF sorted = <<>> THEN <<entry>>
    ELSE IF Head(sorted).similarity >= entry.similarity
         THEN <<Head(sorted)>> \o InsertBySimilarity(Tail(sorted), entry)
         ELSE <<entry>> \o sorted

RECURSIVE SortBySimilarity(_)
SortBySimilarity(results) ==
    IF results = <<>> THEN <<>>
    ELSE InsertBySimilarity(SortBySimilarity(SubSeq(results, 1, Len(results) - 1)),
                            results[Len(results)])

top_k == 20

Truncate(results, k) == SubSeq(results, 1, IF Len(results) < k THEN Len(results) ELSE k)

\* the scoring loop over candidate_docs enumerated in `order`: the entries
\* appended, or KeyError from self.documents_inv[doc_id]
RECURSIVE ScoreCandidates(_, _, _, _, _, _)
ScoreCandidates(order, query_vector, query_length, post, lens, inv) ==
    IF order = <<>> THEN [status |-> "returned", results |-> <<>>]
    ELSE LET doc_id == Head(order)
             similarity == Similarity(doc_id, query_vector, query_length, post, lens)
             rest == ScoreCandidates(Tail(order), query_vector, query_length, post, lens, inv)
         IN  IF similarity > 0
             THEN IF doc_id \notin DOMAIN inv THEN [status |-> "KeyError", results |-> <<>>]
                  ELSE IF rest.status # "returned" THEN rest
                  ELSE [status |-> "returned",
                        results |-> <<[doc_id |-> doc_id, similarity |-> similarity,
                                       doc_path |-> inv[doc_id]]>> \o rest.results]
             ELSE rest

\* what search returns or raises for parsed_terms when the candidate set is
\* enumerated in `order`
SearchOutcome(parsed_terms, order, post, lens, inv, N) ==
    IF parsed_terms = <<>> THEN [status |-> "returned", results |-> <<>>]
    ELSE IF get_documents_with_all_terms(parsed_terms, post) = {}
    THEN [status |-> "returned", results |-> <<>>]
    ELSE LET post1 == PostingsAfterLookup(parsed_terms, post)
         IN  IF QueryVectorRaises(parsed_terms, post1, N)
             THEN [status |-> "ValueError", results |-> <<>>]
             ELSE LET query_vector == build_query_vector(parsed_terms, post1, N)
                      query_length == VectorLength(query_vector)
                  IN  IF query_length = 0 THEN [status |-> "returned", results |-> <<>>]
                      ELSE LET scored == ScoreCandidates(order, query_vector, query_length,
                                                         post1, lens, inv)
                           IN  IF scored.status # "returned" THEN scored
                               ELSE [status |-> "returned",
                                     results |-> Truncate(SortBySimilarity(scored.results), top_k)]

\* search(query): iterating a Python set enumerates it in an order the
\* language does not fix, so the order is any permutation
search(query) ==
    /\ pc = "loaded"
    /\ LET parsed_terms == ParseQuery(query, s_terms)
           candidate_docs == get_documents_with_all_terms(parsed_terms, s_postings)
       IN  /\ s_postings' = PostingsAfterLookup(parsed_terms, s_postings)
           /\ \E order \in Perms(candidate_docs) :
                 /\ lastOrder' = order
                 /\ lastResult' = SearchOutcome(parsed_terms, order, s_postings,
                                                s_doc_lengths, documents_inv, total_docs)
           /\ lastQuery' = query
           /\ lastParsed' = parsed_terms
    /\ UNCHANGED <<indexerVars, files, s_documents, documents_inv, s_terms, s_doc_lengths,
                   total_docs, pc, calls, load_ok>>

\* The identifier strings a call may pass: one that is registered already, or
\* the first of PathList that is not (the code only compares identifier
\* strings for equality, so which fresh string is passed makes no difference).
CallPaths ==
    LET used == DOMAIN documents
        fresh == {i \in DOMAIN PathList : PathList[i] \notin used}
    IN  used \cup {PathList[i] : i \in {j \in fresh : \A k \in fresh : j <= k}}

Next ==
    \/ \E content \in SeqsUpTo(DocTerms, MaxTokens), doc_path \in CallPaths :
           process_document_content(content, doc_path)
    \/ calculate_tf_idf
    \/ calculate_document_lengths
    \/ save_index
    \/ \E disk \in Directories : NewSearchEngine(disk)
    \/ \E query \in SeqsUpTo(QueryTerms, MaxQueryLen) : search(query)

Spec == Init /\ [][Next]_vars

\* build_index alone: the indexer up to the end of the build
BuildNext ==
    \/ \E content \in SeqsUpTo(DocTerms, MaxTokens), doc_path \in CallPaths :
           process_document_content(content, doc_path)
    \/ calculate_tf_idf
    \/ calculate_document_lengths

BuildSpec == Init /\ [][BuildNext]_vars

\* build, save and load of a corpus in which an identifier string may hold a
\* comma; the engine loads the directory as save_index wrote it
PersistNext ==
    \/ \E content \in SeqsUpTo(DocTerms, MaxTokens), doc_path \in CallPaths \cup {CommaPath} :
           process_document_content(content, doc_path)
    \/ calculate_tf_idf
    \/ calculate_document_lengths
    \/ save_index
    \/ NewSearchEngine(files)

PersistSpec == Init /\ [][PersistNext]_vars

\* ================================================================ claims
\* the document ids registered in the document table
Registered == {documents[p] : p \in DOMAIN documents}

\* the document ids issued so far
Issued == 1..(next_doc_id - 1)

\* the documents that hold a posting for a term id in a postings store
Holders(post, term_id) == IF term_id \in DOMAIN post THEN DOMAIN post[term_id] ELSE {}

\* ---------------------------------------------------------------- C8
\* C8: the i-th process_document_content call is assigned document id i, and
\* the document table maps identifier strings one-to-one onto all the ids
\* issued (no issued id loses its identifier string).
C8_DocumentTableOneToOne ==
    /\ \A i \in DOMAIN calls : calls[i][3] = i
    /\ Registered = Issued
    /\ \A p, q \in DOMAIN documents : documents[p] = documents[q] => p = q

\* ---------------------------------------------------------------- C4
\* C4: after calculate_tf_idf every posting of a term has df = the number of
\* documents holding a posting for the term, idf = ln(N/df) with N the number
\* of documents, 0 <= idf, df <= N, and idf = 0 exactly when df = N.
C4_IdfFromDf ==
    pc \in {"weighted", "built"} =>
        \A term_id \in DOMAIN postings : \A doc_id \in DOMAIN postings[term_id] :
            LET posting == postings[term_id][doc_id]
                N == Cardinality(DOMAIN documents)
            IN  /\ posting.df = Cardinality(Holders(postings, term_id))
                /\ posting.idf = Log(N, posting.df)
                /\ posting.idf >= 0
                /\ posting.df <= N
                /\ (posting.idf = 0 <=> posting.df = N)

\* ---------------------------------------------------------------- C5
\* the terms a document holds a posting for
TermsOf(doc_id) == {term_id \in DOMAIN postings : doc_id \in DOMAIN postings[term_id]}

\* C5 as stated: after build every registered document has a norm >= 0 that
\* is 0 exactly when the document contributed no posting.
C5_NormZeroIffNoPostings ==
    pc = "built" =>
        \A doc_id \in Registered :
            /\ doc_lengths[doc_id] >= 0
            /\ (doc_lengths[doc_id] = 0 <=> TermsOf(doc_id) = {})

\* C5 amended: after build every registered document has a norm >= 0 that is
\* 0 exactly when every term the document holds a posting for is held by as
\* many documents as the document table has entries (so its weight is 0); a
\* document without postings is one such case.
C5_NormZeroIffAllWeightsZero ==
    pc = "built" =>
        /\ DOMAIN doc_lengths = Registered
        /\ \A doc_id \in Registered :
            /\ doc_lengths[doc_id] >= 0
            /\ (doc_lengths[doc_id] = 0 <=>
                    \A term_id \in TermsOf(doc_id) :
                        Cardinality(DOMAIN postings[term_id]) = Cardinality(DOMAIN documents))
            /\ (TermsOf(doc_id) = {} => doc_lengths[doc_id] = 0)

\* a built index without a repeated identifier string in which a document
\* with postings has norm 0 and another document has a positive norm
C5_Witness ==
    /\ pc = "built"
    /\ Registered = Issued
    /\ \E doc_id \in Registered : TermsOf(doc_id) # {} /\ doc_lengths[doc_id] = 0
    /\ \E doc_id \in Registered : doc_lengths[doc_id] > 0

\* ---------------------------------------------------------------- C9
\* the position of the first occurrence of a term in the token stream of all
\* the calls: <<call, token>>
FirstSeen(term) ==
    LET call == CHOOSE i \in DOMAIN calls :
                    /\ term \in Range(calls[i][2])
                    /\ \A j \in DOMAIN calls : term \in Range(calls[j][2]) => i <= j
        token == CHOOSE k \in DOMAIN calls[call][2] :
                    /\ calls[call][2][k] = term
                    /\ \A m \in DOMAIN calls[call][2] : calls[call][2][m] = term => k <= m
    IN  <<call, token>>

Before(x, y) == x[1] < y[1] \/ (x[1] = y[1] /\ x[2] < y[2])

C9_TermTable ==
    /\ DOMAIN terms = UNION {Range(calls[i][2]) : i \in DOMAIN calls}
    /\ {terms[t] : t \in DOMAIN terms} = 1..Cardinality(DOMAIN terms)
    /\ next_term_id = Cardinality(DOMAIN terms) + 1
    /\ \A t, u \in DOMAIN terms : t # u => terms[t] # terms[u]
    /\ \A t, u \in DOMAIN terms : terms[t] < terms[u] <=> Before(FirstSeen(t), FirstSeen(u))
    /\ \A t \in DOMAIN terms : Holders(postings, terms[t]) # {}

C9_TermIdKept ==
    \A t \in DOMAIN terms : t \in DOMAIN terms' /\ terms'[t] = terms[t]

\* C9: term ids are exactly 1..|terms| in first-seen order, distinct terms
\* have distinct ids, every term of the table has at least one posting, and a
\* term's id never changes once assigned.
C9_TermIds == [](C9_TermTable) /\ [][C9_TermIdKept]_vars

\* both stems are in the table, the second one first seen in a later call
\* than the first, which that call repeats
C9_Witness ==
    /\ Cardinality(DOMAIN terms) = 2
    /\ \E i, j \in DOMAIN calls :
          /\ i < j
          /\ Cardinality(Range(calls[j][2])) = 2
          /\ Cardinality(Range(calls[i][2])) = 1

\* ------------------------------------------------------ search claims
\* a search was answered by the engine
Searched == lastResult.status # "none"

\* every order of the tokens of a query
Reorderings(query) ==
    {[i \in DOMAIN query |-> query[order[i]]] : order \in Perms(DOMAIN query)}

\* the documents of the loaded postings store
LoadedDocIds == UNION {DOMAIN s_postings[t] : t \in DOMAIN s_postings}

\* the documents holding a posting for every surviving term of a query
HoldAll(parsed_terms) ==
    {d \in LoadedDocIds : \A t \in QueryTermIds(parsed_terms) : d \in Holders(s_postings, t)}

\* ---------------------------------------------------------------- C1
\* C1: for a query with a surviving term the candidate set is exactly the
\* set of documents holding a posting for every distinct surviving term
\* (empty when a surviving term has no postings), it is the same for every
\* order of the query's terms, and it is the set the search enumerated.
C1_CandidatesAreConjunction ==
    pc = "loaded" =>
        /\ \A query \in SeqsUpTo(QueryTerms, MaxQueryLen) :
              LET parsed_terms == ParseQuery(query, s_terms)
                  candidate_docs == get_documents_with_all_terms(parsed_terms, s_postings)
              IN  parsed_terms # <<>> =>
                    /\ candidate_docs = HoldAll(parsed_terms)
                    /\ (\E t \in QueryTermIds(parsed_terms) : Holders(s_postings, t) = {})
                          => candidate_docs = {}
                    /\ \A other \in Reorderings(query) :
                          get_documents_with_all_terms(ParseQuery(other, s_terms), s_postings)
                              = candidate_docs
        /\ (Searched /\ lastParsed # <<>>) => Range(lastOrder) = HoldAll(lastParsed)

\* an answered search on two distinct surviving terms whose candidates are some but
\* not all of the documents of each term
C1_Witness ==
    /\ load_ok
    /\ lastResult.status = "returned"
    /\ Cardinality(QueryTermIds(lastParsed)) = 2
    /\ Range(lastOrder) # {}
    /\ \A t \in QueryTermIds(lastParsed) : Range(lastOrder) # Holders(s_postings, t)

\* ---------------------------------------------------------------- C2
\* C2: the list search returns is ordered by similarity descending, and two
\* results of equal similarity are in ascending document id order.
C2_RankedWithTieBreak ==
    lastResult.status = "returned" =>
        \A i, j \in DOMAIN lastResult.results :
            i < j =>
                LET x == lastResult.results[i]
                    y == lastResult.results[j]
                IN  \/ x.similarity > y.similarity
                    \/ (x.similarity = y.similarity /\ x.doc_id < y.doc_id)

\* ---------------------------------------------------------------- C3
\* C3: every entry search returns is a candidate document with similarity
\* > 0; a candidate with document norm 0 is not returned; when every
\* surviving term has as many postings as the engine counts documents (the
\* query vector is 0), and for every query on a corpus of one document, the
\* result has no entry.
C3_OnlyPositiveSimilarity ==
    Searched =>
        /\ \A i \in DOMAIN lastResult.results :
              LET entry == lastResult.results[i]
              IN  /\ entry.doc_id \in HoldAll(lastParsed)
                  /\ entry.similarity > 0
                  /\ Get(s_doc_lengths, entry.doc_id, 1000) # 0
        /\ (\A t \in QueryTermIds(lastParsed) :
                Cardinality(Holders(s_postings, t)) = total_docs)
              => lastResult.results = <<>>
        /\ Len(calls) = 1 => lastResult.results = <<>>

\* a search whose candidates have norm 0, and which returned nothing, on an
\* index of more than one document
C3_Witness ==
    /\ load_ok
    /\ Registered = Issued
    /\ Len(calls) > 1
    /\ Range(lastOrder) # {}
    /\ \A d \in Range(lastOrder) : d \in DOMAIN s_doc_lengths /\ s_doc_lengths[d] = 0
    /\ lastResult = [status |-> "returned", results |-> <<>>]

\* ---------------------------------------------------------------- C6
\* the query without the stems that are absent from the term table
Surviving(query) == SelectSeq(query, LAMBDA stem : stem \in DOMAIN s_terms)

\* what search can return for a query, over the enumeration orders
Outcomes(query) ==
    LET parsed_terms == ParseQuery(query, s_terms)
    IN  {SearchOutcome(parsed_terms, order, s_postings, s_doc_lengths, documents_inv, total_docs) :
            order \in Perms(get_documents_with_all_terms(parsed_terms, s_postings))}

\* C6: a search does not abort on a stem absent from the term table: it
\* returns what the search on the query without the absent stems returns,
\* and the empty list when no stem survives.
C6_AbsentTermsDropped ==
    Searched =>
        /\ lastResult \in Outcomes(Surviving(lastQuery))
        /\ Surviving(lastQuery) = <<>> => lastResult = [status |-> "returned", results |-> <<>>]
        /\ \A i \in DOMAIN lastParsed : lastParsed[i].processed \in DOMAIN s_terms
        /\ Len(lastParsed) = Len(Surviving(lastQuery))

\* a search on an absent stem followed by a present one that returned a document
C6_Witness ==
    /\ load_ok
    /\ Len(lastQuery) = 2
    /\ lastQuery[1] \notin DOMAIN s_terms
    /\ lastQuery[2] \in DOMAIN s_terms
    /\ lastResult.results # <<>>

\* ---------------------------------------------------------------- C7
\* the loaded tables refer only to identifiers the other tables hold
ReferentiallyConsistent ==
    /\ DOMAIN s_postings \subseteq {s_terms[t] : t \in DOMAIN s_terms}
    /\ LoadedDocIds \subseteq DOMAIN documents_inv
    /\ DOMAIN s_doc_lengths \subseteq DOMAIN documents_inv

\* C7: when a table is missing or the tables are referentially inconsistent
\* the load is rejected: no search is answered from such an index.
C7_NoSearchOnBadIndex ==
    (pc = "loaded" /\ (~load_ok \/ ~ReferentiallyConsistent)) => ~Searched

\* ---------------------------------------------------------------- C10
\* C10: a search leaves documents, terms, postings and doc_lengths of the
\* engine unchanged.
C10_SearchReadOnly ==
    [][(pc = "loaded" /\ pc' = "loaded")
          => UNCHANGED <<s_documents, s_terms, s_postings, s_doc_lengths>>]_vars

\* ---------------------------------------------------------------- C11
\* two real values that agree in the digits the files keep
SameRounded(x, y) == x - y <= 5 /\ y - x <= 5

\* C11: save_index followed by load_index reconstructs the document table,
\* the term table, the posting keys with their tf and df, and a length entry
\* for the same document ids, the real-valued fields up to file rounding.
C11_RoundTrip ==
    pc = "loaded" =>
        /\ s_documents = documents
        /\ s_terms = terms
        /\ DOMAIN s_postings = DOMAIN postings
        /\ \A term_id \in DOMAIN postings :
              /\ DOMAIN s_postings[term_id] = DOMAIN postings[term_id]
              /\ \A doc_id \in DOMAIN postings[term_id] :
                    LET saved == postings[term_id][doc_id]
                        read == s_postings[term_id][doc_id]
                    IN  /\ read.tf = saved.tf
                        /\ read.df = saved.df
                        /\ SameRounded(read.idf, saved.idf)
                        /\ SameRounded(read.tf_idf, saved.tf_idf)
        /\ DOMAIN s_doc_lengths = DOMAIN doc_lengths
        /\ \A doc_id \in DOMAIN doc_lengths :
              SameRounded(s_doc_lengths[doc_id], doc_lengths[doc_id])

\* ---------------------------------------------------------------- C12
\* the surviving occurrences of a stem in the document of the i-th call
Occurrences(i, term) == Cardinality({k \in DOMAIN calls[i][2] : calls[i][2][k] = term})

C12_PostingsMatchDocuments ==
    /\ \A i \in DOMAIN calls : \A term \in DocTerms :
          LET held == term \in DOMAIN terms /\ calls[i][3] \in Holders(postings, terms[term])
          IN  /\ held <=> Occurrences(i, term) > 0
              /\ held => postings[terms[term]][calls[i][3]].tf = Occurrences(i, term)
    /\ \A term_id \in DOMAIN postings :
          /\ \E term \in DOMAIN terms :
                terms[term] = term_id /\ \A other \in DOMAIN terms : terms[other] = term_id => other = term
          /\ DOMAIN postings[term_id] \subseteq {calls[i][3] : i \in DOMAIN calls}

C12_TfKept ==
    \A term_id \in DOMAIN postings : \A doc_id \in DOMAIN postings[term_id] :
        /\ term_id \in DOMAIN postings'
        /\ doc_id \in DOMAIN postings'[term_id]
        /\ postings'[term_id][doc_id].tf = postings[term_id][doc_id].tf

\* C12: for every document added the postings store holds exactly one
\* posting per distinct surviving stem of the document, with tf the number of
\* surviving occurrences of the stem in it, and no later
\* process_document_content, calculate_tf_idf or calculate_document_lengths
\* changes the tf of a posting.
C12_RawTermFrequency == [](C12_PostingsMatchDocuments) /\ [][C12_TfKept]_vars

\* a built index in which a document holds a stem twice and a later document
\* holds the same stem
C12_Witness ==
    /\ pc = "built"
    /\ \E i, j \in DOMAIN calls : \E term \in DocTerms :
          /\ i < j
          /\ Occurrences(i, term) = 2
          /\ Occurrences(j, term) > 0
          /\ postings[terms[term]][calls[i][3]].tf = 2

\* ---------------------------------------------------------------- C13
\* the document ids that appear in a posting of the built index
PostingDocIds == UNION {DOMAIN postings[term_id] : term_id \in DOMAIN postings}

\* C13: after build every document id that appears in a posting is a value
\* of the document table and has an entry in doc_lengths, so that after save
\* and load no candidate of a search lacks a length (the default 1.0 is never
\* used) and no search raises KeyError on documents_inv.
C13_PostingDocumentsRegistered ==
    /\ pc \in {"built", "saved", "loaded"} =>
          \A doc_id \in PostingDocIds : doc_id \in Registered /\ doc_id \in DOMAIN doc_lengths
    /\ (pc = "loaded" /\ load_ok) =>
          /\ LoadedDocIds \subseteq DOMAIN s_doc_lengths
          /\ LoadedDocIds \subseteq DOMAIN documents_inv
          /\ Range(lastOrder) \subseteq DOMAIN s_doc_lengths
          /\ lastResult.status # "KeyError"
====
